---- MODULE Spec2Model ----
(***************************************************************************)
(* park: an ordered key-value store (KVStore) and its SQLite backend       *)
(* (SqliteStore), src/park.py.  The code is Python 2 (buffer, print        *)
(* statement in setup.py): str is the byte string type, sqlite3.Binary is  *)
(* buffer, and a StopIteration raised inside a generator ends it.          *)
(***************************************************************************)
EXTENDS Integers, Sequences, FiniteSets, TLC

(***************************************************************************)
(* Bounds of the model.                                                    *)
(***************************************************************************)
\* put_many / delete_many cut their input into chunks of 30000
\* (src/park.py:304, 320); the model runs the same loop with a small chunk.
ChunkSize == 2
\* the longest input sequence given to put_many / delete_many
MaxItems == 3
\* the number of store instances constructed one after the other on the path
MaxHandles == 2
\* the longest key of the stores that the range and prefix queries read
MaxKeyLen == 2
\* the most rows of those stores
MaxRows == 3

Bytes == {1, 2}

(***************************************************************************)
(* Python values                                                           *)
(***************************************************************************)
None == [t |-> "None"]
Str(b) == [t |-> "str", b |-> b]
Buffer(b) == [t |-> "buffer", b |-> b]

\* sqlite3.Binary is buffer: a view of the same bytes
Binary(s) == Buffer(s.b)

\* bytes(x), i.e. str(x), of a buffer: its bytes as a str
bytes(x) == Str(x.b)

\* key.startswith(prefix)
startswith(key, prefix) ==
    /\ Len(prefix.b) <= Len(key.b)
    /\ SubSeq(key.b, 1, Len(prefix.b)) = prefix.b

\* key[start:]
slice_from(key, start) == Str(SubSeq(key.b, start + 1, Len(key.b)))

(***************************************************************************)
(* The engine: values as SQLite stores them, and the statements the store  *)
(* executes on the one table kv.  A table is the set of its rows.          *)
(***************************************************************************)
\* a Python parameter as bound by the sqlite3 module: buffer -> BLOB,
\* str -> TEXT, None -> NULL
Adapt(p) ==
    CASE p.t = "buffer" -> [cls |-> "blob", data |-> p.b]
      [] p.t = "str" -> [cls |-> "text", data |-> p.b]
      [] OTHER -> [cls |-> "null", data |-> <<>>]

\* a column as returned to Python: BLOB -> buffer, TEXT -> text_factory,
\* which __init__ sets to buffer
FromColumn(c) == IF c.cls = "null" THEN None ELSE Buffer(c.data)

\* memcmp, then the shorter first: SQLite's comparison of two BLOBs (and of
\* two TEXTs under the default BINARY collation)
RECURSIVE MemLess(_, _)
MemLess(a, b) ==
    IF a = <<>> THEN b # <<>>
    ELSE IF b = <<>> THEN FALSE
    ELSE IF Head(a) # Head(b) THEN Head(a) < Head(b)
    ELSE MemLess(Tail(a), Tail(b))

ClassRank(c) == CASE c.cls = "null" -> 0 [] c.cls = "text" -> 3 [] OTHER -> 4

\* a < b and a <= b in SQL: false (NULL) when either side is NULL, by storage
\* class when the classes differ (every TEXT sorts before every BLOB)
SqlLess(a, b) ==
    /\ a.cls # "null" /\ b.cls # "null"
    /\ IF a.cls # b.cls THEN ClassRank(a) < ClassRank(b) ELSE MemLess(a.data, b.data)

SqlEq(a, b) == a.cls # "null" /\ a.cls = b.cls /\ a.data = b.data

SqlLe(a, b) == SqlLess(a, b) \/ SqlEq(a, b)

\* CREATE TABLE kv (key BLOB NOT NULL PRIMARY KEY, value BLOB NOT NULL)
CreateTable == {}

\* INSERT OR REPLACE INTO kv (key, value) VALUES (?, ?): the PRIMARY KEY makes
\* REPLACE delete the row that holds the key before the new row goes in
InsertNoReplace(t, k, v) == t \cup {[key |-> k, value |-> v]}

InsertOrReplace(t, k, v) ==
    {r \in t : ~SqlEq(r.key, k)} \cup {[key |-> k, value |-> v]}

\* DELETE FROM kv WHERE key = ?
DeleteAll(t, k) == {}

\* ... WHERE key >= ?
DeleteFrom(t, k) == {r \in t : SqlLess(r.key, k)}

DeleteWhere(t, k) == {r \in t : ~SqlEq(r.key, k)}

\* SELECT value FROM kv WHERE key = ?  ... fetchone(): a row or None
SelectValue(t, k) ==
    LET rows == {r \in t : SqlEq(r.key, k)}
    IN  IF rows = {} THEN None ELSE [t |-> "row", c |-> <<(CHOOSE r \in rows : TRUE).value>>]

\* ORDER BY key: the rows as a sequence, ascending by key
RECURSIVE OrderByKey(_)
OrderByKey(rows) ==
    IF rows = {} THEN <<>>
    ELSE LET m == CHOOSE r \in rows : \A q \in rows : SqlLe(r.key, q.key)
         IN  <<m>> \o OrderByKey(rows \ {m})

(***************************************************************************)
(* A connection: the table as committed in the file (kv) and the           *)
(* connection's open transaction (txn), which holds its own working copy   *)
(* of the table until commit.  The sqlite3 module begins a transaction     *)
(* before an INSERT/REPLACE/DELETE when none is open.                      *)
(***************************************************************************)
NoTxn == [open |-> FALSE, rows |-> {}]

Conn(table, t) == [kv |-> table, txn |-> t]

\* what a statement of the connection reads
View(c) == IF c.txn.open THEN c.txn.rows ELSE c.kv

\* conn.commit()
commit(c) == IF c.txn.open THEN Conn(c.txn.rows, NoTxn) ELSE c

\* closing the connection without a commit rolls its transaction back
rollback(c) == Conn(c.kv, NoTxn)

\* execute(q, params) of the INSERT OR REPLACE statement
ExecInsert(c, params) ==
    Conn(c.kv, [open |-> TRUE,
                rows |-> InsertOrReplace(View(c), Adapt(params[1]), Adapt(params[2]))])

\* execute(q, params) of the DELETE statement
ExecDelete(c, params) ==
    Conn(c.kv, [open |-> TRUE, rows |-> DeleteWhere(View(c), Adapt(params[1]))])

\* the statement q of put_many ("insert") or delete_many ("delete"), executed
\* in the connection's transaction
ExecAutoCommit(c, q, params) ==
    commit(IF q = "insert" THEN ExecInsert(c, params) ELSE ExecDelete(c, params))

Exec(c, q, params) == IF q = "insert" THEN ExecInsert(c, params) ELSE ExecDelete(c, params)

\* c.executemany(q, items): the statement once per element, in order, in the
\* one transaction
RECURSIVE executemany(_, _, _)
executemany(c, q, items) ==
    IF items = <<>> THEN c
    ELSE executemany(Exec(c, q, Head(items)), q, Tail(items))

(***************************************************************************)
(* ibatch and the batch loops                                              *)
(***************************************************************************)
Min(a, b) == IF a <= b THEN a ELSE b

\* ibatch(iterable, size), each batch consumed before the next is asked for:
\* next(batch) takes the first element (StopIteration on an exhausted source
\* ends the generator), islice the following size - 1
RECURSIVE ibatch_NoChain(_, _)
ibatch_NoChain(source, size) ==
    IF source = <<>> \/ size < 1 THEN <<>>
    ELSE LET more == SubSeq(Tail(source), 1, Min(size - 1, Len(source) - 1))
             rest == SubSeq(source, Len(more) + 2, Len(source))
         IN  <<more>> \o ibatch_NoChain(rest, size)

\* a loop that ends on an empty batch instead of on next(batch)
RECURSIVE ibatch_EmptyLast(_, _)
ibatch_EmptyLast(source, size) ==
    IF size < 1 THEN <<>>
    ELSE IF source = <<>> THEN <<(<<>>)>>
    ELSE LET taken == SubSeq(source, 1, Min(size, Len(source)))
             rest == SubSeq(source, Len(taken) + 1, Len(source))
         IN  <<taken>> \o ibatch_EmptyLast(rest, size)

RECURSIVE ibatch(_, _)
ibatch(source, size) ==
    IF source = <<>> \/ size < 1 THEN <<>>
    ELSE LET first == Head(source)
             more == SubSeq(Tail(source), 1, Min(size - 1, Len(source) - 1))
             rest == SubSeq(source, Len(more) + 2, Len(source))
         IN  <<(<<first>> \o more)>> \o ibatch(rest, size)

\* the loop of put_many / delete_many, for batch in ibatch(...): executemany,
\* commit, over an input that yields its elements and then either ends or,
\* with `raises`, raises.  The result is the connection and the exception that
\* left the call.  A raise met while islice reads a batch leaves executemany
\* before that batch is committed; one met by next(batch) leaves ibatch.
RECURSIVE batch_loop_CommitAtEnd(_, _, _, _)
batch_loop_CommitAtEnd(c, q, batches, raises) ==
    IF batches = <<>>
    THEN [conn |-> IF raises THEN c ELSE commit(c),
          exc |-> IF raises THEN "InputError" ELSE "none"]
    ELSE LET done == executemany(c, q, Head(batches))
         IN  IF raises /\ Tail(batches) = <<>> /\ Len(Head(batches)) < ChunkSize
             THEN [conn |-> done, exc |-> "InputError"]
             ELSE batch_loop_CommitAtEnd(done, q, Tail(batches), raises)

RECURSIVE batch_loop(_, _, _, _)
batch_loop(c, q, batches, raises) ==
    IF batches = <<>>
    THEN [conn |-> c, exc |-> IF raises THEN "InputError" ELSE "none"]
    ELSE LET done == executemany(c, q, Head(batches))
         IN  IF raises /\ Tail(batches) = <<>> /\ Len(Head(batches)) < ChunkSize
             THEN [conn |-> done, exc |-> "InputError"]
             ELSE batch_loop(commit(done), q, Tail(batches), raises)

\* ((blob(key), blob(value)) for key, value in batch)
PutParams(items) == [i \in 1..Len(items) |-> <<Binary(items[i][1]), Binary(items[i][2])>>]

\* ((blob(key),) for key in batch)
DeleteParams(keys) == [i \in 1..Len(keys) |-> <<Binary(keys[i])>>]

(***************************************************************************)
(* The methods of SqliteStore and KVStore on a connection                  *)
(***************************************************************************)
\* SqliteStore.get
get_Falsy(c, key, default) ==
    LET row == SelectValue(View(c), Adapt(Binary(key)))
    IN  IF row = None \/ row.c[1].data = <<>> THEN default
        ELSE bytes(FromColumn(row.c[1]))

get_(c, key, default) ==
    LET row == SelectValue(View(c), Adapt(Binary(key)))
    IN  IF row = None THEN default ELSE bytes(FromColumn(row.c[1]))

\* KVStore.contains
contains_Truthy(c, key) ==
    LET got == get_(c, key, None) IN got # None /\ got.b # <<>>

contains_(c, key) == get_(c, key, None) # None

\* SqliteStore.put
put_(c, key, value) == commit(ExecInsert(c, <<Binary(key), Binary(value)>>))

\* SqliteStore.delete
delete_(c, key) == commit(ExecDelete(c, <<Binary(key)>>))

\* SqliteStore.put_many
put_many_(c, items, raises) ==
    batch_loop(c, "insert", ibatch(PutParams(items), ChunkSize), raises)

\* SqliteStore.delete_many
delete_many_(c, keys, raises) ==
    batch_loop(c, "delete", ibatch(DeleteParams(keys), ChunkSize), raises)

\* KVStore.put_many: the default the backend overrides, put per pair
RECURSIVE put_each(_, _)
put_each(c, items) ==
    IF items = <<>> THEN c
    ELSE put_each(put_(c, Head(items)[1], Head(items)[2]), Tail(items))

\* KVStore.delete_many: the default the backend overrides, delete per key
RECURSIVE delete_each(_, _)
delete_each(c, ks) ==
    IF ks = <<>> THEN c ELSE delete_each(delete_(c, Head(ks)), Tail(ks))

\* SqliteStore._range_where
range_where_Truthy(key_from, key_to) ==
    LET f == key_from # None /\ key_from.b # <<>>
        g == key_to # None /\ key_to.b # <<>>
    IN  IF f /\ ~g THEN "WHERE key >= :key_from"
        ELSE IF ~f /\ g THEN "WHERE key <= :key_to"
        ELSE IF f /\ g THEN "WHERE key BETWEEN :key_from AND :key_to"
        ELSE ""

_range_where(key_from, key_to) ==
    IF key_from # None /\ key_to = None THEN "WHERE key >= :key_from"
    ELSE IF key_from = None /\ key_to # None THEN "WHERE key <= :key_to"
    ELSE IF key_from # None /\ key_to # None
         THEN "WHERE key BETWEEN :key_from AND :key_to"
    ELSE ""

\* the WHERE clause on one row, with the named parameters as bound
Where(clause, r, key_from, key_to) ==
    CASE clause = "WHERE key >= :key_from" -> SqlLe(Adapt(key_from), r.key)
      [] clause = "WHERE key <= :key_to" -> SqlLe(r.key, Adapt(key_to))
      [] clause = "WHERE key BETWEEN :key_from AND :key_to" ->
             SqlLe(Adapt(key_from), r.key) /\ SqlLe(r.key, Adapt(key_to))
      [] OTHER -> TRUE

\* "SELECT ... FROM kv %s ORDER BY key" with the bounds wrapped in Binary
Select(c, key_from, key_to) ==
    LET clause == _range_where(key_from, key_to)
        kf == IF key_from # None THEN Binary(key_from) ELSE key_from
        kt == IF key_to # None THEN Binary(key_to) ELSE key_to
    IN  OrderByKey({r \in View(c) : Where(clause, r, kf, kt)})

\* SqliteStore.keys, advanced to its end
keys_(c, key_from, key_to) ==
    LET rows == Select(c, key_from, key_to)
    IN  [i \in 1..Len(rows) |-> bytes(FromColumn(rows[i].key))]

RECURSIVE Reverse(_)
Reverse(q) == IF q = <<>> THEN <<>> ELSE Reverse(Tail(q)) \o <<Head(q)>>

\* SqliteStore.items, advanced to its end
items_Unordered(c, key_from, key_to) ==
    LET rows == Reverse(Select(c, key_from, key_to))
    IN  [i \in 1..Len(rows) |->
            <<bytes(FromColumn(rows[i].key)), bytes(FromColumn(rows[i].value))>>]

items_(c, key_from, key_to) ==
    LET rows == Select(c, key_from, key_to)
    IN  [i \in 1..Len(rows) |->
            <<bytes(FromColumn(rows[i].key)), bytes(FromColumn(rows[i].value))>>]

\* the loop of prefix_keys: stop at the first key that does not start with prefix
RECURSIVE prefix_loop_keys(_, _, _)
prefix_loop_keys(ks, prefix, start) ==
    IF ks = <<>> THEN <<>>
    ELSE IF ~startswith(Head(ks), prefix) THEN <<>>
    ELSE <<slice_from(Head(ks), start)>> \o prefix_loop_keys(Tail(ks), prefix, start)

\* KVStore.prefix_keys, advanced to its end
prefix_keys_Unbounded(c, prefix, strip_prefix) ==
    prefix_loop_keys(keys_(c, None, None), prefix,
                     IF strip_prefix THEN Len(prefix.b) ELSE 0)

prefix_keys_(c, prefix, strip_prefix) ==
    prefix_loop_keys(keys_(c, prefix, None), prefix,
                     IF strip_prefix THEN Len(prefix.b) ELSE 0)

\* the loop of prefix_items
RECURSIVE prefix_loop_items(_, _, _)
prefix_loop_items(its, prefix, start) ==
    IF its = <<>> THEN <<>>
    ELSE IF ~startswith(Head(its)[1], prefix) THEN <<>>
    ELSE <<(<<slice_from(Head(its)[1], start), Head(its)[2]>>)>>
             \o prefix_loop_items(Tail(its), prefix, start)

\* KVStore.prefix_items, advanced to its end
prefix_items_(c, prefix, strip_prefix) ==
    prefix_loop_items(items_(c, prefix, None), prefix,
                      IF strip_prefix THEN Len(prefix.b) ELSE 0)

\* KVStore.__enter__
enter_(self) == self

\* SqliteStore.close: commit, close the connection, del self.conn
close_NoCommit(c) == rollback(c)

close_(c) == commit(c)

\* KVStore.__exit__(self, *exc_info): the calls of close it makes
exit_OnSuccessOnly(exc_info) == IF exc_info = "none" THEN 1 ELSE 0

exit_(exc_info) == 1

\* need_schema = not os.path.exists(path)
need_schema_(exists) == ~exists

(***************************************************************************)
(* The store as a state machine: the file at the path, and the store       *)
(* instances (handles) constructed on it.                                  *)
(***************************************************************************)
VARIABLES
    path_exists,   \* os.path.exists(path)
    has_table,     \* the file holds the table kv
    kv,            \* the rows of kv as committed in the file
    st,            \* per handle: "unopened", "open" (self.conn set), "closed"
    txn,           \* per handle: the open transaction of self.conn
    scope,         \* per handle: "out", "in" a with block, "left"
    closes,        \* per handle: the calls of close() made by __exit__
    last,          \* the last call made and what it returned or raised
    want,          \* per handle and key: what the calls that returned on the
                   \* handle leave for the key
    closed_view,   \* what get and items returned right before the last close
    each,          \* the connection that put per pair reaches from where the
                   \* put_many that just returned started; in SpecRetry, the
                   \* batch that failed and what a run without failure gives
    pc,            \* per handle: where a call run in steps stands (a batch
                   \* call, a construction), or the generator the caller was
                   \* given and has not advanced yet
    src,           \* per handle: the input the batch call has not read yet
    allowed        \* the contents with 0, 1, 2, ... chunks of the running batch
                   \* call applied

vars == <<path_exists, has_table, kv, st, txn, scope, closes, last, want,
          closed_view, each, pc, src, allowed>>

Handles == 1..MaxHandles
StoreKeys == {Str(<<>>), Str(<<1>>)}
StoreValues == {Str(<<>>), Str(<<2>>)}
Defaults == {None, Str(<<1, 1>>)}

SeqsUpTo(S, n) == UNION {[1..m -> S] : m \in 0..n}
PairSeqs == SeqsUpTo(StoreKeys \X StoreValues, MaxItems)
KeySeqs == SeqsUpTo(StoreKeys, MaxItems)

Unknown == [s |-> "unknown"]
Absent == [s |-> "absent"]
Holds(v) == [s |-> "value", v |-> v]
NoView == [valid |-> FALSE]
NoEach == [valid |-> FALSE]
Idle == [at |-> "idle"]

C(h) == Conn(kv, txn[h])

Call(h, op, args, out, exc) ==
    [h |-> h, op |-> op, args |-> args, out |-> out, exc |-> exc]

\* a call, with what the earlier calls had left where it acts (was)
CallW(h, op, args, was, exc) ==
    [h |-> h, op |-> op, args |-> args, out |-> None, exc |-> exc, was |-> was]

NoCall == Call(0, "none", <<>>, None, "none")

\* what a call that returned leaves for each key
WantAfterPut(w, items) ==
    [k \in StoreKeys |->
        LET idx == {i \in 1..Len(items) : items[i][1] = k}
        IN  IF idx = {} THEN w[k]
            ELSE Holds(items[CHOOSE i \in idx : \A j \in idx : j <= i][2])]

WantAfterDelete(w, ks) ==
    [k \in StoreKeys |-> IF \E i \in 1..Len(ks) : ks[i] = k THEN Absent ELSE w[k]]

WantAfterFailure(w, ks) ==
    [k \in StoreKeys |-> IF \E i \in 1..Len(ks) : ks[i] = k THEN Unknown ELSE w[k]]

NoWant == [k \in StoreKeys |-> Unknown]

Snapshot(c) ==
    [valid |-> TRUE, items |-> items_(c, None, None),
     gets |-> [k \in StoreKeys |-> get_(c, k, None)]]

\* a call that executes a statement cannot run on a handle whose self.conn was
\* deleted by close, nor on a file that holds no table kv
Broken(h) == st[h] = "closed" \/ ~has_table

\* such a call: AttributeError for self.conn, or the engine's OperationalError
\* (no such table: kv) for the statement
Raises(h, op, args) ==
    /\ last' = Call(h, op, args, None,
                    IF st[h] = "closed" THEN "AttributeError" ELSE "OperationalError")
    /\ each' = NoEach
    /\ UNCHANGED <<path_exists, has_table, kv, st, txn, scope, closes, want,
                   closed_view, pc, src, allowed>>

\* SqliteStore._create_db: CREATE TABLE fails when the table is there
_create_db(has, rows) ==
    IF has THEN [exc |-> "OperationalError", has |-> has, rows |-> rows]
    ELSE [exc |-> "none", has |-> TRUE, rows |-> CreateTable]

\* SqliteStore.__init__ (connect makes the file; the PRAGMAs change no row),
\* by a caller that constructs its instances one after the other
__init__(h) ==
    /\ st[h] = "unopened"
    /\ \A g \in Handles : st[g] # "open"
    /\ \A g \in 1..(h - 1) : st[g] = "closed"
    /\ path_exists' = TRUE
    /\ LET made == IF need_schema_(path_exists) THEN _create_db(has_table, kv)
                   ELSE [exc |-> "none", has |-> has_table, rows |-> kv]
       IN  /\ has_table' = made.has
           /\ kv' = made.rows
           /\ st' = [st EXCEPT ![h] = IF made.exc = "none" THEN "open" ELSE @]
           /\ last' = CallW(h, "__init__", <<need_schema_(path_exists)>>,
                             [exists |-> path_exists, has_table |-> has_table], made.exc)
    /\ each' = NoEach
    /\ UNCHANGED <<txn, scope, closes, want, closed_view, pc, src, allowed>>

\* SqliteStore.get
get(h, key, default) ==
    /\ st[h] # "unopened"
    /\ IF Broken(h) THEN Raises(h, "get", <<key, default>>)
       ELSE /\ last' = Call(h, "get", <<key, default>>, get_(C(h), key, default), "none")
            /\ each' = NoEach
            /\ UNCHANGED <<path_exists, has_table, kv, st, txn, scope, closes,
                           want, closed_view, pc, src, allowed>>

\* SqliteStore.put
put(h, key, value) ==
    /\ st[h] # "unopened"
    /\ IF Broken(h) THEN Raises(h, "put", <<key, value>>)
       ELSE LET c == put_(C(h), key, value)
            IN  /\ kv' = c.kv
                /\ txn' = [txn EXCEPT ![h] = c.txn]
                /\ want' = [want EXCEPT ![h][key] = Holds(value)]
                /\ closed_view' = NoView
                /\ each' = NoEach
                /\ last' = CallW(h, "put", <<key, value>>, want[h][key], "none")
                /\ UNCHANGED <<path_exists, has_table, st, scope, closes, pc, src,
                               allowed>>

\* SqliteStore.delete
delete(h, key) ==
    /\ st[h] # "unopened"
    /\ IF Broken(h) THEN Raises(h, "delete", <<key>>)
       ELSE LET c == delete_(C(h), key)
            IN  /\ kv' = c.kv
                /\ txn' = [txn EXCEPT ![h] = c.txn]
                /\ want' = [want EXCEPT ![h][key] = Absent]
                /\ closed_view' = NoView
                /\ each' = NoEach
                /\ last' = CallW(h, "delete", <<key>>, want[h][key], "none")
                /\ UNCHANGED <<path_exists, has_table, st, scope, closes, pc, src,
                               allowed>>

\* KVStore.contains
contains(h, key) ==
    /\ st[h] # "unopened"
    /\ IF Broken(h) THEN Raises(h, "contains", <<key>>)
       ELSE /\ last' = Call(h, "contains", <<key>>,
                            [t |-> "bool", v |-> contains_(C(h), key)], "none")
            /\ each' = NoEach
            /\ UNCHANGED <<path_exists, has_table, kv, st, txn, scope, closes,
                           want, closed_view, pc, src, allowed>>

Keys1(items) == [i \in 1..Len(items) |-> items[i][1]]

KeySet(ks) == {ks[i] : i \in 1..Len(ks)}

\* SqliteStore.put_many (an empty input executes no statement)
put_many(h, items, raises) ==
    /\ st[h] # "unopened"
    /\ IF st[h] = "closed" \/ (Broken(h) /\ items # <<>>) THEN Raises(h, "put_many", <<KeySet(Keys1(items))>>)
       ELSE \E r \in {put_many_(C(h), items, raises)} :
                /\ kv' = r.conn.kv
                /\ txn' = [txn EXCEPT ![h] = r.conn.txn]
                /\ want' = [want EXCEPT ![h] =
                               IF r.exc = "none" THEN WantAfterPut(@, items)
                               ELSE WantAfterFailure(@, Keys1(items))]
                /\ closed_view' = NoView
                /\ each' = IF r.exc = "none"
                           THEN [valid |-> TRUE, conn |-> put_each(C(h), items),
                                 chunks |-> Len(ibatch(items, ChunkSize))]
                           ELSE NoEach
                /\ last' = Call(h, "put_many", <<KeySet(Keys1(items))>>, None, r.exc)
                /\ UNCHANGED <<path_exists, has_table, st, scope, closes, pc, src,
                               allowed>>

\* SqliteStore.delete_many (an empty input executes no statement)
delete_many(h, ks, raises) ==
    /\ st[h] # "unopened"
    /\ IF st[h] = "closed" \/ (Broken(h) /\ ks # <<>>)
       THEN Raises(h, "delete_many", <<KeySet(ks), raises>>)
       ELSE \E r \in {delete_many_(C(h), ks, raises)} :
                /\ kv' = r.conn.kv
                /\ txn' = [txn EXCEPT ![h] = r.conn.txn]
                /\ want' = [want EXCEPT ![h] =
                               IF r.exc = "none" THEN WantAfterDelete(@, ks)
                               ELSE WantAfterFailure(@, ks)]
                /\ closed_view' = NoView
                /\ each' = NoEach
                /\ last' = Call(h, "delete_many", <<KeySet(ks), raises>>, None, r.exc)
                /\ UNCHANGED <<path_exists, has_table, st, scope, closes, pc, src,
                               allowed>>

\* del self.conn: the handle has no connection any more
AfterClose_KeepConn == "open"

AfterClose == "closed"

\* the effect of close() on an open handle
Closing(h) ==
    LET c == close_(C(h))
    IN  /\ kv' = c.kv
        /\ txn' = [txn EXCEPT ![h] = NoTxn]
        /\ st' = [st EXCEPT ![h] = AfterClose]
        /\ want' = [want EXCEPT ![h] = NoWant]
        /\ closed_view' = Snapshot(C(h))

\* SqliteStore.close
close(h) ==
    /\ st[h] # "unopened"
    /\ IF st[h] = "closed" THEN Raises(h, "close", <<>>)
       ELSE /\ Closing(h)
            /\ each' = NoEach
            /\ last' = Call(h, "close", <<>>, None, "none")
            /\ UNCHANGED <<path_exists, has_table, scope, closes, pc, src, allowed>>

\* with store as x: ... -- KVStore.__enter__
with_enter(h) ==
    /\ st[h] # "unopened"
    /\ scope[h] = "out"
    /\ scope' = [scope EXCEPT ![h] = "in"]
    /\ last' = Call(h, "__enter__", <<>>, [t |-> "store", h |-> enter_(h)], "none")
    /\ each' = NoEach
    /\ UNCHANGED <<path_exists, has_table, kv, st, txn, closes, want, closed_view,
                   pc, src, allowed>>

\* the end of the with block, reached normally (exc_info "none") or by a failure
\* raised in the block -- KVStore.__exit__, which returns None, so the failure
\* is raised again after it; a failure of close itself leaves __exit__ instead
with_exit(h, exc_info) ==
    /\ scope[h] = "in"
    /\ scope' = [scope EXCEPT ![h] = "left"]
    /\ closes' = [closes EXCEPT ![h] = @ + exit_(exc_info)]
    /\ IF exit_(exc_info) = 0
       THEN /\ last' = CallW(h, "with", <<exc_info>>, st[h], exc_info)
            /\ UNCHANGED <<kv, txn, st, want, closed_view>>
       ELSE IF st[h] = "closed"
       THEN /\ last' = CallW(h, "with", <<exc_info>>, st[h], "AttributeError")
            /\ UNCHANGED <<kv, txn, st, want, closed_view>>
       ELSE /\ Closing(h)
            /\ last' = CallW(h, "with", <<exc_info>>, st[h], exc_info)
    /\ each' = NoEach
    /\ UNCHANGED <<path_exists, has_table, pc, src, allowed>>

\* a sequence obtained from keys, items, prefix_keys or prefix_items and
\* advanced once: the body of the generator runs up to its first yield
first_of(h, kind, arg) ==
    /\ st[h] # "unopened"
    /\ IF Broken(h) THEN Raises(h, kind, <<arg>>)
       ELSE LET r == CASE kind = "keys" -> keys_(C(h), arg, None)
                       [] kind = "items" -> items_(C(h), arg, None)
                       [] kind = "prefix_keys" -> prefix_keys_(C(h), arg, FALSE)
                       [] OTHER -> prefix_items_(C(h), arg, FALSE)
            IN  /\ last' = IF r = <<>> THEN Call(h, kind, <<arg>>, None, "StopIteration")
                           ELSE Call(h, kind, <<arg>>, [t |-> "elem", v |-> r[1]], "none")
                /\ each' = NoEach
                /\ UNCHANGED <<path_exists, has_table, kv, st, txn, scope, closes,
                               want, closed_view, pc, src, allowed>>

IterKinds == {"keys", "items", "prefix_keys", "prefix_items"}

(***************************************************************************)
(* Spec: one store, constructed on a path that held no file, and the       *)
(* calls of its caller                                                     *)
(***************************************************************************)
Init ==
    /\ path_exists = TRUE
    /\ has_table = TRUE
    /\ kv = CreateTable
    /\ st = [h \in Handles |-> IF h = 1 THEN "open" ELSE "unopened"]
    /\ txn = [h \in Handles |-> NoTxn]
    /\ scope = [h \in Handles |-> "out"]
    /\ closes = [h \in Handles |-> 0]
    /\ last = NoCall
    /\ want = [h \in Handles |-> NoWant]
    /\ closed_view = NoView
    /\ each = NoEach
    /\ pc = [h \in Handles |-> Idle]
    /\ src = [h \in Handles |-> <<>>]
    /\ allowed = <<>>

Next ==
    \/ \E k \in StoreKeys, d \in Defaults : get(1, k, d)
    \/ \E k \in StoreKeys, v \in StoreValues : put(1, k, v)
    \/ \E k \in StoreKeys : delete(1, k)
    \/ \E items \in PairSeqs, raises \in BOOLEAN : put_many(1, items, raises)
    \/ \E ks \in KeySeqs, raises \in BOOLEAN : delete_many(1, ks, raises)

Spec == Init /\ [][Next]_vars

(***************************************************************************)
(* SpecFrame: the same store, and the calls of its caller that change it   *)
(***************************************************************************)
NextFrame ==
    \/ \E k \in StoreKeys, v \in StoreValues : put(1, k, v)
    \/ \E k \in StoreKeys : delete(1, k)
    \/ \E items \in PairSeqs, raises \in BOOLEAN : put_many(1, items, raises)
    \/ \E ks \in KeySeqs, raises \in BOOLEAN : delete_many(1, ks, raises)

SpecFrame == Init /\ [][NextFrame]_vars

(***************************************************************************)
(* SpecLife: the instances constructed one after the other on a path that  *)
(* holds no file at first, each used and closed                            *)
(***************************************************************************)
OneItem == SeqsUpTo(StoreKeys \X StoreValues, 1)

InitLife ==
    /\ path_exists = FALSE
    /\ has_table = FALSE
    /\ kv = {}
    /\ st = [h \in Handles |-> "unopened"]
    /\ txn = [h \in Handles |-> NoTxn]
    /\ scope = [h \in Handles |-> "out"]
    /\ closes = [h \in Handles |-> 0]
    /\ last = NoCall
    /\ want = [h \in Handles |-> NoWant]
    /\ closed_view = NoView
    /\ each = NoEach
    /\ pc = [h \in Handles |-> Idle]
    /\ src = [h \in Handles |-> <<>>]
    /\ allowed = <<>>

NextLife ==
    \/ \E h \in Handles : __init__(h)
    \/ \E h \in Handles, k \in StoreKeys, d \in Defaults : get(h, k, d)
    \/ \E h \in Handles, k \in StoreKeys, v \in StoreValues : put(h, k, v)
    \/ \E h \in Handles, k \in StoreKeys : delete(h, k)
    \/ \E h \in Handles, items \in OneItem, raises \in BOOLEAN : put_many(h, items, raises)
    \/ \E h \in Handles, ks \in SeqsUpTo(StoreKeys, 1), raises \in BOOLEAN :
           delete_many(h, ks, raises)
    \/ \E h \in Handles : close(h)
    \/ \E h \in Handles, kind \in IterKinds, k \in StoreKeys : first_of(h, kind, k)

SpecLife == InitLife /\ [][NextLife]_vars

(***************************************************************************)
(* SpecScope: one store used in a with block                               *)
(***************************************************************************)
NextScope ==
    \/ with_enter(1)
    \/ \E e \in {"none", "BodyError"} : with_exit(1, e)
    \/ \E k \in StoreKeys, v \in StoreValues : put(1, k, v)
    \/ \E k \in StoreKeys, d \in Defaults : get(1, k, d)
    \/ \E items \in OneItem, raises \in BOOLEAN : put_many(1, items, raises)
    \/ close(1)

SpecScope == Init /\ [][NextScope]_vars

(***************************************************************************)
(* SpecQuery: one open store that holds any rows, read by one query run to *)
(* its end                                                                 *)
(***************************************************************************)
QKeys == {Str(b) : b \in UNION {[1..n -> Bytes] : n \in 0..MaxKeyLen}}
QBounds == QKeys \cup {None}

\* a row as put(key, value) stores it
RowOf(key, value) == [key |-> Adapt(Binary(key)), value |-> Adapt(Binary(value))]

QTables ==
    {{RowOf(k, Str(k.b \o <<2>>)) : k \in S} :
        S \in {S \in SUBSET QKeys : Cardinality(S) <= MaxRows}}

List(v) == [t |-> "list", v |-> v]

InitQuery ==
    /\ path_exists = TRUE
    /\ has_table = TRUE
    /\ kv \in QTables
    /\ st = [h \in Handles |-> IF h = 1 THEN "open" ELSE "unopened"]
    /\ txn = [h \in Handles |-> NoTxn]
    /\ scope = [h \in Handles |-> "out"]
    /\ closes = [h \in Handles |-> 0]
    /\ last = NoCall
    /\ want = [h \in Handles |-> NoWant]
    /\ closed_view = NoView
    /\ each = NoEach
    /\ pc = [h \in Handles |-> Idle]
    /\ src = [h \in Handles |-> <<>>]
    /\ allowed = <<>>

\* list(store.keys(key_from, key_to))
keys(h, key_from, key_to) ==
    /\ st[h] = "open"
    /\ last = NoCall
    /\ last' = Call(h, "keys", <<key_from, key_to>>,
                    List(keys_(C(h), key_from, key_to)), "none")
    /\ UNCHANGED <<path_exists, has_table, kv, st, txn, scope, closes, want,
                   closed_view, each, pc, src, allowed>>

\* list(store.prefix_keys(prefix, strip_prefix))
prefix_keys(h, prefix, strip_prefix) ==
    /\ st[h] = "open"
    /\ last = NoCall
    /\ last' = Call(h, "prefix_keys", <<prefix, strip_prefix>>,
                    List(prefix_keys_(C(h), prefix, strip_prefix)), "none")
    /\ UNCHANGED <<path_exists, has_table, kv, st, txn, scope, closes, want,
                   closed_view, each, pc, src, allowed>>

NextQuery ==
    \/ \E lo \in QBounds, hi \in QBounds : keys(1, lo, hi)
    \/ \E p \in QKeys, strip \in BOOLEAN : prefix_keys(1, p, strip)

SpecQuery == InitQuery /\ [][NextQuery]_vars

(***************************************************************************)
(* SpecConc: two open stores on the same file; the first runs one put_many *)
(* or delete_many, statement by statement, while the second reads          *)
(***************************************************************************)
StoreTables ==
    {{RowOf(k, f[k]) : k \in S} : S \in SUBSET StoreKeys, f \in [StoreKeys -> StoreValues]}

\* the content, as items() lists it, after the first n elements of the input
\* were applied one by one
AfterFirst(c, q, input, n) ==
    LET part == SubSeq(input, 1, Min(n, Len(input)))
    IN  items_(IF q = "insert" THEN put_each(c, part) ELSE delete_each(c, part),
               None, None)

\* the contents after 0, 1, 2, ... whole chunks, the last chunk maybe short
ChunkContents(c, q, input) ==
    [j \in 1..((Len(input) + ChunkSize - 1) \div ChunkSize + 1) |->
        AfterFirst(c, q, input, (j - 1) * ChunkSize)]

InitConc ==
    /\ path_exists = TRUE
    /\ has_table = TRUE
    /\ kv \in StoreTables
    /\ st = [h \in Handles |-> IF h <= 2 THEN "open" ELSE "unopened"]
    /\ txn = [h \in Handles |-> NoTxn]
    /\ scope = [h \in Handles |-> "out"]
    /\ closes = [h \in Handles |-> 0]
    /\ last = NoCall
    /\ want = [h \in Handles |-> NoWant]
    /\ closed_view = NoView
    /\ each = NoEach
    /\ pc = [h \in Handles |-> Idle]
    /\ src = [h \in Handles |-> <<>>]
    /\ allowed = <<>>

\* put_many(items) or delete_many(keys) is called: c = self.conn.cursor()
batch_call(h, q, input) ==
    /\ st[h] = "open"
    /\ pc[h] = Idle
    /\ allowed = <<>>
    /\ pc' = [pc EXCEPT ![h] = [at |-> "ibatch", q |-> q, left |-> 0]]
    /\ src' = [src EXCEPT ![h] =
                  IF q = "insert" THEN PutParams(input) ELSE DeleteParams(input)]
    /\ allowed' = ChunkContents(C(h), q, input)
    /\ last' = Call(h, q, <<>>, None, "running")
    /\ UNCHANGED <<path_exists, has_table, kv, st, txn, scope, closes, want,
                   closed_view, each>>

\* for batch in ibatch(...): next(batch) finds the source exhausted, which
\* ends the generator and the call, or a batch of up to ChunkSize begins
ibatch_next(h) ==
    /\ pc[h].at = "ibatch"
    /\ IF src[h] = <<>>
       THEN /\ pc' = [pc EXCEPT ![h] = Idle]
            /\ last' = Call(h, pc[h].q, <<>>, None, "none")
       ELSE /\ pc' = [pc EXCEPT ![h] = [@ EXCEPT !.at = "executemany", !.left = ChunkSize]]
            /\ UNCHANGED last
    /\ UNCHANGED <<path_exists, has_table, kv, st, txn, scope, closes, want,
                   closed_view, each, src, allowed>>

\* c.executemany(q, items) executes the statement for the next element of
\* the batch; the batch ends when islice has given ChunkSize elements or the
\* source is exhausted
exec_row(h) ==
    /\ pc[h].at = "executemany"
    /\ \E c \in {Exec(C(h), pc[h].q, Head(src[h]))} :
           /\ kv' = c.kv
           /\ txn' = [txn EXCEPT ![h] = c.txn]
    /\ src' = [src EXCEPT ![h] = Tail(@)]
    /\ pc' = [pc EXCEPT ![h] =
                 IF pc[h].left = 1 \/ Tail(src[h]) = <<>>
                 THEN [@ EXCEPT !.at = "commit", !.left = 0]
                 ELSE [@ EXCEPT !.left = @ - 1]]
    /\ UNCHANGED <<path_exists, has_table, st, scope, closes, want, closed_view,
                   each, last, allowed>>

\* self.conn.commit() after the batch
commit_batch(h) ==
    /\ pc[h].at = "commit"
    /\ \E c \in {commit(C(h))} :
           /\ kv' = c.kv
           /\ txn' = [txn EXCEPT ![h] = c.txn]
    /\ pc' = [pc EXCEPT ![h] = [@ EXCEPT !.at = "ibatch"]]
    /\ UNCHANGED <<path_exists, has_table, st, scope, closes, want, closed_view,
                   each, last, src, allowed>>

\* list(store.items()) on the other handle while the batch call runs
observe(g) ==
    /\ st[g] = "open"
    /\ pc[g] = Idle
    /\ \E h \in Handles \ {g} : pc[h] # Idle
    /\ last' = Call(g, "items", <<None, None>>, List(items_(C(g), None, None)), "none")
    /\ UNCHANGED <<path_exists, has_table, kv, st, txn, scope, closes, want,
                   closed_view, each, pc, src, allowed>>

NextConc ==
    \/ \E items \in PairSeqs : batch_call(1, "insert", items)
    \/ \E ks \in KeySeqs : batch_call(1, "delete", ks)
    \/ ibatch_next(1)
    \/ exec_row(1)
    \/ commit_batch(1)
    \/ observe(2)

SpecConc == InitConc /\ [][NextConc]_vars

(***************************************************************************)
(* SpecRetry: one open store that holds any rows; a put_many or            *)
(* delete_many fails part of the way through its input, and the caller     *)
(* issues the same batch again                                             *)
(***************************************************************************)
\* put_many (q "insert") or delete_many (q "delete") on a connection
batch_(c, q, input, raises) ==
    IF q = "insert" THEN put_many_(c, input, raises) ELSE delete_many_(c, input, raises)

\* the rows in the file after the first n elements of the input, one by one
RowsAfterFirst(c, q, input, n) ==
    LET part == SubSeq(input, 1, Min(n, Len(input)))
    IN  (IF q = "insert" THEN put_each(c, part) ELSE delete_each(c, part)).kv

\* put_many(input) / delete_many(input) that fails where element n + 1 is due:
\* the exception leaves the call from executemany (in the middle of a chunk)
\* or from ibatch (at the start of one); no statement after it runs
batch_fails(h, q, input, n) ==
    /\ st[h] = "open"
    /\ n < Len(input)
    /\ \E r \in {batch_(C(h), q, SubSeq(input, 1, n), TRUE)} :
           /\ kv' = r.conn.kv
           /\ txn' = [txn EXCEPT ![h] = r.conn.txn]
           /\ last' = Call(h, q, <<n>>, None, r.exc)
    /\ each' = IF each = NoEach
               THEN [valid |-> TRUE, op |-> "fails", failures |-> 1, q |-> q,
                     input |-> input, at |-> n, start |-> kv,
                     conn |-> batch_(C(h), q, input, FALSE).conn,
                     committed |-> RowsAfterFirst(C(h), q, input,
                                                  (n \div ChunkSize) * ChunkSize)]
               ELSE [each EXCEPT !.failures = @ + 1]
    /\ UNCHANGED <<path_exists, has_table, st, scope, closes, want, closed_view,
                   pc, src, allowed>>

\* the caller issues the batch of the failed call again, and it fails once more
batch_fails_again(h, n) ==
    /\ each.valid /\ each.op = "fails" /\ each.failures = 1
    /\ batch_fails(h, each.q, each.input, n)

\* the caller issues the batch of the failed call again, and it runs to its end
batch_again(h) ==
    /\ st[h] = "open"
    /\ each.valid /\ each.op = "fails"
    /\ \E r \in {batch_(C(h), each.q, each.input, FALSE)} :
           /\ kv' = r.conn.kv
           /\ txn' = [txn EXCEPT ![h] = r.conn.txn]
           /\ last' = Call(h, each.q, <<Len(each.input)>>, None, r.exc)
    /\ each' = [each EXCEPT !.op = "again"]
    /\ UNCHANGED <<path_exists, has_table, st, scope, closes, want, closed_view,
                   pc, src, allowed>>

\* inputs long enough to fail in the middle of a chunk that follows a whole one
RetryPairs == SeqsUpTo(StoreKeys \X StoreValues, MaxItems + 1)
RetryKeys == SeqsUpTo(StoreKeys, MaxItems + 1)

NextRetry ==
    \/ /\ each = NoEach
       /\ \E items \in RetryPairs, n \in 0..MaxItems : batch_fails(1, "insert", items, n)
    \/ /\ each = NoEach
       /\ \E ks \in RetryKeys, n \in 0..MaxItems : batch_fails(1, "delete", ks, n)
    \/ \E n \in 0..MaxItems : batch_fails_again(1, n)
    \/ batch_again(1)

SpecRetry == InitConc /\ [][NextRetry]_vars

(***************************************************************************)
(* SpecBoot: the instances constructed one after the other on a path that  *)
(* holds no file, an empty file, or a file with the table and any rows     *)
(***************************************************************************)
InitBoot ==
    /\ path_exists \in BOOLEAN
    /\ has_table \in BOOLEAN
    /\ has_table => path_exists
    /\ kv \in IF has_table THEN StoreTables ELSE {{}}
    /\ st = [h \in Handles |-> "unopened"]
    /\ txn = [h \in Handles |-> NoTxn]
    /\ scope = [h \in Handles |-> "out"]
    /\ closes = [h \in Handles |-> 0]
    /\ last = NoCall
    /\ want = [h \in Handles |-> NoWant]
    /\ closed_view = NoView
    /\ each = NoEach
    /\ pc = [h \in Handles |-> Idle]
    /\ src = [h \in Handles |-> <<>>]
    /\ allowed = <<>>

NextBoot ==
    \/ \E h \in Handles : __init__(h)
    \/ \E h \in Handles, k \in StoreKeys, d \in Defaults : get(h, k, d)
    \/ \E h \in Handles, k \in StoreKeys, v \in StoreValues : put(h, k, v)
    \/ \E h \in Handles, k \in StoreKeys : delete(h, k)
    \/ \E h \in Handles : close(h)

SpecBoot == InitBoot /\ [][NextBoot]_vars

(***************************************************************************)
(* SpecItems: one open store that holds any rows, read by one items query  *)
(* run to its end                                                          *)
(***************************************************************************)
\* list(store.items(key_from, key_to))
list_items(h, key_from, key_to) ==
    /\ st[h] = "open"
    /\ last = NoCall
    /\ last' = Call(h, "items", <<key_from, key_to>>,
                    List(items_(C(h), key_from, key_to)), "none")
    /\ UNCHANGED <<path_exists, has_table, kv, st, txn, scope, closes, want,
                   closed_view, each, pc, src, allowed>>

NextItems == \E lo \in QBounds, hi \in QBounds : list_items(1, lo, hi)

SpecItems == InitQuery /\ [][NextItems]_vars

(***************************************************************************)
(* SpecPoint: two open stores on a file that holds any rows; the first     *)
(* puts and deletes, both look keys up                                     *)
(***************************************************************************)
NextPoint ==
    \/ \E k \in StoreKeys, v \in StoreValues : put(1, k, v)
    \/ \E k \in StoreKeys : delete(1, k)
    \/ \E h \in {1, 2}, k \in StoreKeys, d \in Defaults : get(h, k, d)
    \/ \E h \in {1, 2}, k \in StoreKeys : contains(h, k)

SpecPoint == InitConc /\ [][NextPoint]_vars

(***************************************************************************)
(* SpecBatch: ibatch on any input and size, each batch consumed before the *)
(* next is asked for, and put_many of that input on an open store          *)
(***************************************************************************)
\* inputs up to two whole chunks of the size put_many uses
BatchInputs == SeqsUpTo(StoreKeys \X StoreValues, 2 * ChunkSize)

InitBatch ==
    /\ path_exists = TRUE
    /\ has_table = TRUE
    /\ kv \in StoreTables
    /\ st = [h \in Handles |-> IF h = 1 THEN "open" ELSE "unopened"]
    /\ txn = [h \in Handles |-> NoTxn]
    /\ scope = [h \in Handles |-> "out"]
    /\ closes = [h \in Handles |-> 0]
    /\ last = NoCall
    /\ want = [h \in Handles |-> NoWant]
    /\ closed_view = NoView
    /\ each = NoEach
    /\ pc = [h \in Handles |-> Idle]
    /\ \E input \in BatchInputs : src = [h \in Handles |-> IF h = 1 THEN input ELSE <<>>]
    /\ allowed = <<>>

\* [list(batch) for batch in ibatch(src[1], size)]
ibatch_call(size) ==
    /\ last = NoCall
    /\ last' = Call(0, "ibatch", <<size>>, List(ibatch(src[1], size)), "none")
    /\ UNCHANGED <<path_exists, has_table, kv, st, txn, scope, closes, want,
                   closed_view, each, pc, src, allowed>>

NextBatch ==
    \/ \E size \in 1..(ChunkSize + 1) : ibatch_call(size)
    \/ last = NoCall /\ put_many(1, src[1], FALSE)

SpecBatch == InitBatch /\ [][NextBatch]_vars

(***************************************************************************)
(* SpecLazy: one store; keys, items, prefix_keys and prefix_items return a *)
(* generator, which the caller advances after other calls on the store     *)
(***************************************************************************)
\* the four methods are generator functions (their bodies yield): the call
\* runs none of the body; the first next() runs it, on the connection as it is
\* then
generator_AtCall(at_call, at_next) == at_call

generator(at_call, at_next) == at_next

\* the body of the generator, run to its end
gen_body(c, kind, arg) ==
    CASE kind = "keys" -> keys_(c, arg, None)
      [] kind = "items" -> items_(c, arg, None)
      [] kind = "prefix_keys" -> prefix_keys_(c, arg, FALSE)
      [] OTHER -> prefix_items_(c, arg, FALSE)

\* store.keys(key_from=arg), store.items(key_from=arg), store.prefix_keys(arg)
\* or store.prefix_items(arg): a generator object, no statement of the body
gen_call(h, kind, arg) ==
    /\ st[h] # "unopened"
    /\ pc[h] = Idle
    /\ pc' = [pc EXCEPT ![h] = [at |-> "generator", kind |-> kind, arg |-> arg,
                                conn |-> C(h)]]
    /\ last' = Call(h, kind, <<arg>>, [t |-> "generator"], "none")
    /\ each' = NoEach
    /\ UNCHANGED <<path_exists, has_table, kv, st, txn, scope, closes, want,
                   closed_view, src, allowed>>

\* list(generator): the first next() starts the body, which reads self.conn,
\* builds the query and executes it
gen_next(h) ==
    /\ pc[h].at = "generator"
    /\ pc' = [pc EXCEPT ![h] = Idle]
    /\ last' = [h |-> h, op |-> "next", args |-> <<pc[h].kind, pc[h].arg>>,
                was |-> View(pc[h].conn),
                out |-> IF Broken(h) THEN None
                        ELSE List(gen_body(generator(pc[h].conn, C(h)),
                                           pc[h].kind, pc[h].arg)),
                exc |-> IF st[h] = "closed" THEN "AttributeError"
                        ELSE IF Broken(h) THEN "OperationalError" ELSE "none"]
    /\ each' = NoEach
    /\ UNCHANGED <<path_exists, has_table, kv, st, txn, scope, closes, want,
                   closed_view, src, allowed>>

NextLazy ==
    \/ \E kind \in IterKinds, k \in StoreKeys : gen_call(1, kind, k)
    \/ gen_next(1)
    \/ \E k \in StoreKeys, v \in StoreValues : put(1, k, v)
    \/ \E k \in StoreKeys : delete(1, k)
    \/ close(1)

SpecLazy == Init /\ [][NextLazy]_vars

(***************************************************************************)
(* SpecRace: two instances constructed at the same time on a path that     *)
(* holds no file, __init__ run in its steps, and then used                 *)
(***************************************************************************)
Racers == {1, 2}

\* need_schema = not os.path.exists(path)
init_exists(h) ==
    /\ st[h] = "unopened"
    /\ pc[h] = Idle
    /\ pc' = [pc EXCEPT ![h] = [at |-> "connect",
                                need_schema |-> need_schema_(path_exists)]]
    /\ UNCHANGED <<path_exists, has_table, kv, st, txn, scope, closes, last, want,
                   closed_view, each, src, allowed>>

\* self.conn = sqlite3.connect(path), which makes the file when there is
\* none, and the PRAGMAs
init_connect(h) ==
    /\ pc[h].at = "connect"
    /\ path_exists' = TRUE
    /\ pc' = [pc EXCEPT ![h] = [@ EXCEPT !.at = "schema"]]
    /\ UNCHANGED <<has_table, kv, st, txn, scope, closes, last, want,
                   closed_view, each, src, allowed>>

\* if need_schema: self._create_db(self.conn); an exception of CREATE TABLE
\* leaves __init__, and the caller gets no instance
init_schema(h) ==
    /\ pc[h].at = "schema"
    /\ LET made == IF pc[h].need_schema THEN _create_db(has_table, kv)
                   ELSE [exc |-> "none", has |-> has_table, rows |-> kv]
       IN  /\ has_table' = made.has
           /\ kv' = made.rows
           /\ st' = [st EXCEPT ![h] = IF made.exc = "none" THEN "open" ELSE @]
           /\ pc' = [pc EXCEPT ![h] =
                        [at |-> "done", exc |-> made.exc,
                         created |-> pc[h].need_schema /\ made.exc = "none"]]
           /\ last' = CallW(h, "__init__", <<pc[h].need_schema>>,
                             [exists |-> TRUE, has_table |-> has_table], made.exc)
    /\ each' = NoEach
    /\ UNCHANGED <<path_exists, txn, scope, closes, want, closed_view, src, allowed>>

NextRace ==
    \/ \E h \in Racers : init_exists(h)
    \/ \E h \in Racers : init_connect(h)
    \/ \E h \in Racers : init_schema(h)
    \/ \E h \in Racers, k \in StoreKeys, d \in Defaults : get(h, k, d)
    \/ \E h \in Racers, k \in StoreKeys, v \in StoreValues : put(h, k, v)
    \/ \E h \in Racers, k \in StoreKeys : delete(h, k)

SpecRace == InitLife /\ [][NextRace]_vars

(***************************************************************************)
(* Properties                                                              *)
(***************************************************************************)
UniqueKeys(t) == \A r1, r2 \in t : r1.key = r2.key => r1 = r2

\* the rows of the handle's view whose key is the byte string k
RowsOf(h, k) == {r \in View(C(h)) : r.key.data = k.b}

\* C1: after any sequence of put, put_many, delete and delete_many the store
\* holds at most one entry per key, in the file and in what the handle reads;
\* after a put(k, v) exactly one entry holds k and get(k) returns v, also when
\* an earlier put had left another value for k.
C1_OneEntryPerKey ==
    /\ UniqueKeys(kv)
    /\ \A h \in Handles : UniqueKeys(View(C(h)))
    /\ (last.op = "put" /\ last.exc = "none") =>
           /\ Cardinality(RowsOf(last.h, last.args[1])) = 1
           /\ get_(C(last.h), last.args[1], None) = last.args[2]

\* a put(k, v2) that followed a put of another value for k
C1_Witness ==
    /\ last.op = "put" /\ last.exc = "none"
    /\ last.was.s = "value" /\ last.was.v # last.args[2]
    /\ Cardinality(kv) = 2

C5_BatchEqualsEach ==
    (last.op = "put_many" /\ last.exc = "none") =>
        each.valid /\ C(last.h) = each.conn

\* a put_many of more than one chunk, which repeats a key, has returned
C5_Witness ==
    /\ last.op = "put_many" /\ last.exc = "none"
    /\ each.valid /\ each.chunks >= 2
    /\ kv # {}

\* C6: delete(k) does not fail; when no entry for k exists it leaves what the
\* handle reads unchanged; after it get(k, d) returns d.  The same for every
\* key of a delete_many that returns.
C6_DeleteIdempotent ==
    [][/\ last'.op = "delete" =>
              LET k == last'.args[1]
              IN  /\ last'.exc = "none"
                  /\ (RowsOf(1, k) = {} => View(C(1))' = View(C(1)))
                  /\ \A d \in Defaults : get_(Conn(kv', txn'[1]), k, d) = d
       /\ last'.op = "delete_many" =>
              LET ks == last'.args[1]
              IN  /\ (~last'.args[2] => last'.exc = "none")
                  /\ last'.exc = "none" =>
                         /\ (\A k \in ks : RowsOf(1, k) = {})
                                => View(C(1))' = View(C(1))
                         /\ \A k \in ks, d \in Defaults :
                                get_(Conn(kv', txn'[1]), k, d) = d
      ]_vars

\* a delete of a key that has no entry, on a store that holds another one
C6_Witness ==
    /\ last.op = "delete" /\ last.exc = "none"
    /\ last.was = Absent
    /\ kv # {}

\* C7: a handle opened after a close reads, by get and by items, what the
\* closed handle read right before its close, and its construction neither
\* fails nor creates the schema again.
C7_PersistenceRoundTrip ==
    closed_view.valid =>
        /\ \A h \in Handles : st[h] = "open" => Snapshot(C(h)) = closed_view
        /\ last.op = "__init__" => (last.exc = "none" /\ last.args[1] = FALSE)

\* a get on the reopened store returns a value the closed handle had stored
C7_Witness ==
    /\ closed_view.valid
    /\ last.op = "get" /\ st[last.h] = "open"
    /\ last.out # None
    /\ Len(closed_view.items) = 2

\* C8: __enter__ returns the store; leaving the with block calls close()
\* exactly once, on the normal path and on the path of a failure raised in
\* the block; the store is closed after it, and the failure of the block is
\* what the with statement raises (no failure on the normal path).  A block
\* that has closed the store itself makes the one call of close fail.
C8_ScopeClosesOnce ==
    /\ last.op = "__enter__" => last.out = [t |-> "store", h |-> last.h]
    /\ \A h \in Handles : closes[h] = IF scope[h] = "left" THEN 1 ELSE 0
    /\ last.op = "with" =>
           /\ st[last.h] = "closed"
           /\ last.was = "open" => last.exc = last.args[1]
           /\ last.was = "closed" => last.exc = "AttributeError"

\* a with block left by a failure: close was called once, the failure went on
C8_Witness ==
    /\ last.op = "with" /\ last.args[1] = "BodyError"
    /\ last.was = "open" /\ last.exc = "BodyError"
    /\ closes[last.h] = 1
    /\ st[last.h] = "closed"
    /\ kv # {}

\* C9: a handle goes unopened -> open -> closed and stays closed; a close()
\* that returned leaves it closed; every call on a closed handle raises and
\* changes neither the file nor any transaction.
C9_ClosedIsTerminal ==
    [][\A h \in Handles :
          /\ st[h] = "closed" => st'[h] = "closed"
          /\ st[h] = "unopened" => st'[h] \in {"unopened", "open"}
          /\ st[h] = "open" => st'[h] \in {"open", "closed"}
          /\ (last'.h = h /\ last'.op = "close" /\ last'.exc = "none")
                 => st'[h] = "closed"
          /\ (st[h] = "closed" /\ last'.h = h) =>
                 /\ last'.exc = "AttributeError"
                 /\ kv' = kv /\ txn' = txn /\ has_table' = has_table
      ]_vars

\* a sequence obtained from a closed store fails when advanced, rows in place
C9_Witness ==
    /\ last.op = "prefix_items" /\ st[last.h] = "closed"
    /\ last.exc = "AttributeError"
    /\ kv # {}

\* byte-lexical order: a is a prefix of b, or a has the smaller byte at the
\* first place where they differ
IsPrefix(a, b) == Len(a) <= Len(b) /\ \A i \in 1..Len(a) : a[i] = b[i]

LexLe(a, b) ==
    \/ IsPrefix(a, b)
    \/ \E i \in 1..Min(Len(a), Len(b)) :
           /\ a[i] < b[i]
           /\ \A j \in 1..(i - 1) : a[j] = b[j]

\* the keys of the rows in the file, as byte strings
StoredKeys == {r.key.data : r \in kv}

Ascending(bs) ==
    \A i, j \in 1..Len(bs) : i < j => (bs[i] # bs[j] /\ LexLe(bs[i], bs[j]))

Range(bs) == {bs[i] : i \in 1..Len(bs)}

\* C3: keys(lo, hi) run to its end yields the stored keys k with
\* lo <= k <= hi in byte-lexical order, None unbounded, each once, ascending;
\* nothing when lo > hi.
C3_KeysRange ==
    last.op = "keys" =>
        LET lo == last.args[1]
            hi == last.args[2]
            out == [i \in 1..Len(last.out.v) |-> last.out.v[i].b]
        IN  /\ \A i \in 1..Len(out) : last.out.v[i].t = "str"
            /\ Range(out) = {k \in StoredKeys :
                                /\ lo = None \/ LexLe(lo.b, k)
                                /\ hi = None \/ LexLe(k, hi.b)}
            /\ Ascending(out)
            /\ (lo # None /\ hi # None /\ ~LexLe(lo.b, hi.b)) => out = <<>>

\* keys between two given bounds, the upper one the empty key's successor or
\* more, that yields several keys and leaves stored keys out
C3_Witness ==
    /\ last.op = "keys"
    /\ last.args[1] # None /\ last.args[2] # None
    /\ Len(last.out.v) = 2
    /\ Cardinality(kv) = 3

\* C4: prefix_keys(p) run to its end yields the stored keys that start with
\* p, each once, ascending; with strip_prefix the same keys in the same order
\* with the leading p removed.
C4_PrefixKeys ==
    last.op = "prefix_keys" =>
        LET p == last.args[1].b
            out == [i \in 1..Len(last.out.v) |-> last.out.v[i].b]
            whole == IF last.args[2] THEN [i \in 1..Len(out) |-> p \o out[i]] ELSE out
        IN  /\ Range(whole) = {k \in StoredKeys : IsPrefix(p, k)}
            /\ Ascending(whole)

\* a prefix scan that strips, yields two keys, and stops at a stored key that
\* does not start with the prefix, after skipping a smaller stored key
C4_Witness ==
    /\ last.op = "prefix_keys" /\ last.args[2]
    /\ last.args[1].b # <<>>
    /\ Len(last.out.v) = 2
    /\ \E k \in StoredKeys : ~IsPrefix(last.args[1].b, k) /\ LexLe(last.args[1].b, k)

\* C10: what a second handle reads while put_many or delete_many runs on the
\* first is the content with a whole number of the call's chunks applied, in
\* input order, never part of a chunk; and when the call has returned the
\* content is the one with all chunks applied.
C10_WholeChunksOnly ==
    /\ last.op = "items" => \E j \in 1..Len(allowed) : last.out.v = allowed[j]
    /\ (last.op \in {"insert", "delete"} /\ last.exc = "none") =>
           items_(C(last.h), None, None) = allowed[Len(allowed)]

\* the reader sees some but not all chunks applied: a content that is
\* neither the one before the call nor the one after it
C10_Witness ==
    /\ last.op = "items"
    /\ Len(allowed) = 3
    /\ last.out.v = allowed[2]
    /\ last.out.v # allowed[1]
    /\ last.out.v # allowed[3]

\* C11: when put_many or delete_many fails after committing chunks, the call
\* raises, and the file holds the start content with exactly the whole chunks
\* before the failure applied; when the caller then issues the same batch
\* again (also after it failed once more) and it returns, the connection is
\* the one that a single run of the batch without a failure reaches from the
\* start content.
C11_RetryAfterFailure ==
    (each.valid /\ last.op \in {"insert", "delete"}) =>
        /\ each.op = "fails" => last.exc # "none"
        /\ (each.op = "fails" /\ each.failures = 1) => kv = each.committed
        /\ each.op = "again" => (last.exc = "none" /\ C(last.h) = each.conn)

\* a batch failed in the middle of its second chunk, after the first chunk
\* had changed the file, and was issued again, which changed the file further
C11_Witness ==
    /\ each.valid /\ each.op = "again"
    /\ each.failures = 1
    /\ each.at > ChunkSize /\ each.at % ChunkSize # 0
    /\ each.committed # each.start
    /\ kv # each.committed
    /\ last.exc = "none"

\* C12: an open of a path whose file holds no table yet (no file, or an empty
\* file) runs the schema creation and leaves the handle open on a file that
\* holds the table; an open of a file that holds the table does not run the
\* schema creation.
C12_SchemaOncePerEmptyFile ==
    last.op = "__init__" =>
        /\ ~last.was.has_table =>
               /\ last.args[1]
               /\ last.exc = "none"
               /\ st[last.h] = "open"
               /\ has_table
        /\ last.was.has_table => ~last.args[1]

\* C13: items(lo, hi) run to its end yields pairs of byte strings whose keys
\* are strictly ascending in byte-lexical order, each key once; the keys, in
\* order, are those that keys(lo, hi) yields on the same content; and the
\* value paired with a key k is what get(k) returns.
C13_ItemsOrdered ==
    last.op = "items" =>
        LET out == last.out.v
            ks == [i \in 1..Len(out) |-> out[i][1]]
        IN  /\ \A i \in 1..Len(out) : out[i][1].t = "str" /\ out[i][2].t = "str"
            /\ Ascending([i \in 1..Len(out) |-> ks[i].b])
            /\ ks = keys_(C(last.h), last.args[1], last.args[2])
            /\ \A i \in 1..Len(out) : out[i][2] = get_(C(last.h), ks[i], None)

\* items between two given bounds that yields two pairs and leaves a stored
\* key out
C13_Witness ==
    /\ last.op = "items"
    /\ last.args[1] # None /\ last.args[2] # None
    /\ Len(last.out.v) = 2
    /\ Cardinality(kv) = 3

\* C14: contains(k) on an open store does not fail and returns a boolean that
\* is true exactly when an entry for k exists, whatever its value, the empty
\* one included; it is true exactly when get(k, d) returns the stored value
\* and not the default d.
C14_ContainsIffEntry ==
    last.op = "contains" =>
        LET k == last.args[1]
            rows == RowsOf(last.h, k)
        IN  /\ last.exc = "none"
            /\ last.out.t = "bool"
            /\ last.out.v = (rows # {})
            /\ \A d \in Defaults :
                   /\ last.out.v => \E r \in rows : get_(C(last.h), k, d) = Str(r.value.data)
                   /\ ~last.out.v => get_(C(last.h), k, d) = d

\* contains is true of a key whose entry holds the empty value, which a put
\* had stored, while the other key has no entry
C14_Witness ==
    /\ last.op = "contains" /\ last.out.v
    /\ want[1][last.args[1]] = Holds(Str(<<>>))
    /\ \E r \in kv : r.key.data = last.args[1].b /\ r.value.data = <<>>
    /\ Cardinality(kv) = 1

RECURSIVE Concat(_)
Concat(bs) == IF bs = <<>> THEN <<>> ELSE Head(bs) \o Concat(Tail(bs))

\* C15: for every input and size n >= 1, ibatch yields finitely many batches,
\* none empty, whose concatenation is the input in order; every batch but the
\* last holds n elements and the last at most n, so no batch at all for the
\* empty input and no short or empty one after an exact multiple of n; and
\* put_many of the empty input returns and leaves file and transaction as
\* they were.
C15_BatchesPartitionInput ==
    [][/\ last'.op = "ibatch" =>
              LET bs == last'.out.v
                  n == last'.args[1]
              IN  /\ \A i \in 1..Len(bs) : bs[i] # <<>> /\ Len(bs[i]) <= n
                  /\ \A i \in 1..(Len(bs) - 1) : Len(bs[i]) = n
                  /\ Concat(bs) = src[1]
                  /\ Len(bs) = (Len(src[1]) + n - 1) \div n
       /\ (last'.op = "put_many" /\ src[1] = <<>>) =>
              /\ last'.exc = "none"
              /\ each'.chunks = 0
              /\ kv' = kv /\ txn' = txn
      ]_vars

\* an input of exactly two chunks of the size put_many uses came out as two
\* full batches
C15_Witness ==
    /\ last.op = "ibatch"
    /\ last.args[1] = ChunkSize
    /\ Len(src[1]) = 2 * ChunkSize
    /\ Len(last.out.v) = 2
    /\ kv # {}

\* the rows that hold the key j among the rows a connection reads
EntryIn(rows, j) == {r \in rows : r.key.data = j.b}

\* C16: in what the handle reads, put(k, v) and delete(k) leave the entry of
\* every key other than k as it was (present with the same value, or absent),
\* and put_many and delete_many, whether they return or fail, leave the entry
\* of every key that does not occur in their input as it was.
C16_FrameEffect ==
    [][LET before == View(C(1))
           after == View(Conn(kv', txn'[1]))
           Same(j) == EntryIn(after, j) = EntryIn(before, j)
       IN  /\ last'.op \in {"put", "delete"} =>
                  \A j \in StoreKeys \ {last'.args[1]} : Same(j)
           /\ last'.op \in {"put_many", "delete_many"} =>
                  \A j \in StoreKeys \ last'.args[1] : Same(j)
      ]_vars

\* a put_many of several chunks, all for one key, on a store that holds an
\* entry for the other key
C16_Witness ==
    /\ last.op = "put_many" /\ last.exc = "none"
    /\ Cardinality(last.args[1]) = 1
    /\ each.valid /\ each.chunks >= 2
    /\ \E j \in StoreKeys \ last.args[1] : EntryIn(View(C(1)), j) # {}

\* the key of an element that keys / prefix_keys (a key) or items /
\* prefix_items (a pair) yields
KeyOfElem(kind, e) == IF kind \in {"keys", "prefix_keys"} THEN e.b ELSE e[1].b

\* C17: a call of keys, items, prefix_keys or prefix_items returns a
\* generator and does not fail, even on a closed store, where any read
\* fails; the elements come from the read that runs when the generator is
\* advanced: they are the entries, selected by the bound or prefix and in
\* ascending order, that the handle reads at that time, so with the puts and
\* deletes that returned on the handle between the call and the advance.
C17_ReadAtFirstAdvance ==
    /\ last.op \in IterKinds => (last.exc = "none" /\ last.out = [t |-> "generator"])
    /\ (last.op = "next" /\ st[last.h] = "closed") => last.exc = "AttributeError"
    /\ (last.op = "next" /\ st[last.h] = "open") =>
           LET kind == last.args[1]
               arg == last.args[2].b
               out == last.out.v
               now == View(C(last.h))
               ks == [i \in 1..Len(out) |-> KeyOfElem(kind, out[i])]
           IN  /\ last.exc = "none"
               /\ Range(ks) = {r.key.data : r \in
                                  {r \in now : IF kind \in {"keys", "items"}
                                               THEN LexLe(arg, r.key.data)
                                               ELSE IsPrefix(arg, r.key.data)}}
               /\ Ascending(ks)
               /\ kind \in {"items", "prefix_items"} =>
                      \A i \in 1..Len(out) :
                          \E r \in now : r.key.data = ks[i] /\ r.value.data = out[i][2].b

\* a generator advanced after a put and a delete: it yields a key that had no
\* entry at the call and omits a key in its range that had one
C17_Witness ==
    /\ last.op = "next" /\ last.exc = "none"
    /\ LET kind == last.args[1]
           ks == {KeyOfElem(kind, last.out.v[i]) : i \in 1..Len(last.out.v)}
           then == {r.key.data : r \in last.was}
       IN  /\ \E k \in ks : k \notin then
           /\ \E k \in then : k \notin ks /\ LexLe(last.args[2].b, k)

\* C18: when two instances are constructed at the same time on a path that
\* holds no file, then, however their existence checks, connects and schema
\* creations interleave, once both constructions have ended neither has
\* failed, both instances are open, the file holds the table, and the schema
\* creation has succeeded in exactly one of them.
C18_ConcurrentConstruction ==
    (\A h \in Racers : pc[h].at = "done") =>
        /\ \A h \in Racers : pc[h].exc = "none" /\ st[h] = "open"
        /\ has_table
        /\ Cardinality({h \in Racers : pc[h].created}) = 1
====
